---- MODULE Spec2Model ----
(***************************************************************************)
(* Model of the contiguous frame allocator ContFramePool of                *)
(* MP2_Sources_updated/cont_frame_pool.C.                                  *)
(*                                                                         *)
(* A pool keeps one byte per frame in raw physical memory ("bitmap").      *)
(* The bytes the code stores are kept as numbers.  The memory of a pool is *)
(* modelled as a window of MemCells bytes that starts at the address of    *)
(* the bitmap: cells 0 .. nframes-1 are the states of the pool's frames,   *)
(* the cells after them are the physical memory that follows the bitmap,   *)
(* which the code reaches when an index leaves the pool.  The allocator    *)
(* runs before any paging layer exists, so a store to such a cell lands.   *)
(* Pools have at least one frame.                                          *)
(*                                                                         *)
(* unsigned long counters are kept as the representative near zero of      *)
(* their value modulo 2^32: -1 stands for 0xFFFFFFFF.  ULess compares two  *)
(* such representatives as the unsigned values they stand for.             *)
(***************************************************************************)
EXTENDS Integers, Sequences, FiniteSets, TLC

\* ---------------------------------------------------------------- bounds
MaxPools == 2
MaxFrames == 3
MaxBase == 2
MaxInfoNo == 2
MaxInfoFrames == 2
MaxMark == 2
MaxCalls == 2
MaxCallers == 2
Slack == 1

\* ------------------------------------------------------------- constants
FRAME_SIZE == 4096
FREE == 255
HEAD == 119
ALLOCATED == 170
INFO_MARK == 0
INACCESSIBLE == 128
\* The content of a memory cell behind the bitmap that the allocator has not
\* stored to.  The only read of such a cell is the loop test of
\* release_frames (WalkOn), which has the same outcome for every byte.
UNSET == 0

MemCells == MaxFrames + Slack
Cells == 0 .. (MemCells - 1)
NoPool == 0

\* pools  : the pools in the order of the list that starts at pool_head
\* run    : "ready" between calls, "walk" inside the loop of release_frames,
\*          "overrun" when that loop has left the modelled memory,
\*          "assert" after a failed assert (the kernel stops)
\* rel    : the pool and the local position of the running release_frames
\* last   : the most recent call, its arguments and its result
\* alloc  : the most recent successful get_frames, kept while the next call
\*          is release_frames of the frame it returned
\* clean  : every mark_inaccessible so far marked in-range FREE frames only
\* ncalls : the number of calls made (bounded by MaxCalls)
\* thr    : for each of several callers that run get_frames side by side,
\*          the position of its call and its locals
VARIABLES pools, run, rel, last, alloc, clean, ncalls, thr

vars == <<pools, run, rel, last, alloc, clean, ncalls, thr>>

\* --------------------------------------------------------- unsigned words
\* a < b on unsigned long, for representatives near zero of values mod 2^32
ULess(a, b) == IF (a < 0) = (b < 0) THEN a < b ELSE b < 0

\* ------------------------------------------------------------ constructor
RECURSIVE InfoLoop(_, _, _, _)
\* for (int i = cont_info; i <= cont_info + n_info_frames - 1; i++)
\*     { bitmap[i] = 0xFF; nFreeFrames--; }
InfoLoop(p, i, cont_info, n_info_frames) ==
    IF i <= cont_info + n_info_frames - 1
    THEN InfoLoop([p EXCEPT !.bitmap[i] = FREE,
                            !.nFreeFrames = p.nFreeFrames - 1],
                  i + 1, cont_info, n_info_frames)
    ELSE p

NewPool(_base_frame_no, _n_frames, _info_frame_no, _n_info_frames) ==
    LET p0 == [base_frame_no |-> _base_frame_no,
               nframes       |-> _n_frames,
               nFreeFrames   |-> _n_frames,
               info_frame_no |-> _info_frame_no,
               n_info_frames |-> _n_info_frames,
               bitmap        |-> [i \in Cells |->
                                    IF i < _n_frames THEN FREE ELSE UNSET]]
        p1 == IF _info_frame_no = 0
              THEN [p0 EXCEPT !.bitmap[0] = INFO_MARK,
                              !.nFreeFrames = p0.nFreeFrames - 1]
              ELSE p0
        cont_info == IF _info_frame_no = 0 THEN 1 ELSE _info_frame_no
    IN  InfoLoop(p1, cont_info, cont_info, _n_info_frames)

\* the frame ranges of two pools do not meet
Disjoint(b1, n1, b2, n2) == (b1 + n1 <= b2) \/ (b2 + n2 <= b1)

NoCall == [op |-> "none", pool |-> NoPool, arg |-> 0, n |-> 0, ret |-> 0,
           ok |-> FALSE]
NoAlloc == [pool |-> NoPool, frame |-> 0, n |-> 0, pre |-> 0, live |-> FALSE]

\* The constructor.  limit bounds the number of pools; the stores of the
\* info loop are kept inside the modelled memory window.
Construct(limit, b, n, info, ninfo) ==
    /\ run = "ready"
    /\ Len(pools) < limit
    /\ (IF info = 0 THEN 1 ELSE info) + ninfo <= MemCells
    /\ n <= FRAME_SIZE * 8
    /\ \A k \in 1 .. Len(pools) :
          Disjoint(b, n, pools[k].base_frame_no, pools[k].nframes)
    /\ pools' = Append(pools, NewPool(b, n, info, ninfo))
    /\ last' = [op |-> "construct", pool |-> Len(pools) + 1, arg |-> b,
                n |-> n, ret |-> 0, ok |-> TRUE]
    /\ alloc' = NoAlloc
    /\ UNCHANGED <<run, rel, clean, ncalls, thr>>

\* ------------------------------------------------------------- get_frames
RECURSIVE MarkTail_NoCount(_, _, _)
\* MarkTail with the decrement of nFreeFrames left out of the loop body
MarkTail_NoCount(p, frame_head, counter) ==
    IF counter > 1
    THEN MarkTail_NoCount([p EXCEPT !.bitmap[frame_head + 1] = ALLOCATED],
                          frame_head + 1, counter - 1)
    ELSE p

RECURSIVE MarkTail(_, _, _)
\* while (counter > 1) { frame_head++; bitmap[frame_head] = 0xAA;
\*                       nFreeFrames--; counter--; }
MarkTail(p, frame_head, counter) ==
    IF counter > 1
    THEN MarkTail([p EXCEPT !.bitmap[frame_head + 1] = ALLOCATED,
                            !.nFreeFrames = p.nFreeFrames - 1],
                  frame_head + 1, counter - 1)
    ELSE p

\* bitmap[frame_head] = 0x77; nFreeFrames--; then the tail
MarkRun(p, frame_head, counter) ==
    MarkTail([p EXCEPT !.bitmap[frame_head] = HEAD,
                       !.nFreeFrames = p.nFreeFrames - 1],
             frame_head, counter)

\* the bound of the scan: for (i = 0; i < nframes - 1; i++)
ScanEnd(nframes) == nframes - 1

RECURSIVE Scan_NotTaken(_, _, _, _, _)
\* Scan with the test of a frame turned into "not HEAD and not ALLOCATED"
Scan_NotTaken(p, _n_frames, i, counter, frame_head) ==
    IF i < ScanEnd(p.nframes)
    THEN LET free == p.bitmap[i] \notin {HEAD, ALLOCATED}
             fh == IF free /\ counter = 0 THEN i ELSE frame_head
             c  == IF free THEN counter + 1 ELSE 0
         IN  IF c = _n_frames
             THEN [pool |-> MarkRun(p, fh, c), ret |-> p.base_frame_no + fh,
                   found |-> TRUE, head |-> fh]
             ELSE Scan_NotTaken(p, _n_frames, i + 1, c, fh)
    ELSE [pool |-> p, ret |-> 0, found |-> FALSE, head |-> 0]

RECURSIVE Scan_HeadLate(_, _, _, _, _)
\* Scan with frame_head set at every FREE frame, not only when counter is 0
Scan_HeadLate(p, _n_frames, i, counter, frame_head) ==
    IF i < ScanEnd(p.nframes)
    THEN LET fh == IF p.bitmap[i] = FREE THEN i ELSE frame_head
             c  == IF p.bitmap[i] = FREE THEN counter + 1 ELSE 0
         IN  IF c = _n_frames
             THEN [pool |-> MarkRun(p, fh, c), ret |-> p.base_frame_no + fh,
                   found |-> TRUE, head |-> fh]
             ELSE Scan_HeadLate(p, _n_frames, i + 1, c, fh)
    ELSE [pool |-> p, ret |-> 0, found |-> FALSE, head |-> 0]

RECURSIVE Scan(_, _, _, _, _)
\* The loop of get_frames from index i on, with the locals counter and
\* frame_head.  The result is the pool after the call and the return value.
Scan(p, _n_frames, i, counter, frame_head) ==
    IF i < ScanEnd(p.nframes)
    THEN LET fh == IF p.bitmap[i] = FREE /\ counter = 0 THEN i ELSE frame_head
             c  == IF p.bitmap[i] = FREE THEN counter + 1 ELSE 0
         IN  IF c = _n_frames
             THEN [pool |-> MarkRun(p, fh, c), ret |-> p.base_frame_no + fh,
                   found |-> TRUE, head |-> fh]
             ELSE Scan(p, _n_frames, i + 1, c, fh)
    ELSE [pool |-> p, ret |-> 0, found |-> FALSE, head |-> 0]

\* NoRoom with the comparison against the request left out
NoRoom_ZeroOnly(nFreeFrames, _n_frames) == nFreeFrames = 0

\* if (nFreeFrames == 0 || nFreeFrames < _n_frames) return 0;
NoRoom(nFreeFrames, _n_frames) ==
    nFreeFrames = 0 \/ ULess(nFreeFrames, _n_frames)

\* get_frames with nFreeFrames lowered by the request before the scan
get_frames_CountFirst(p, _n_frames) ==
    IF NoRoom(p.nFreeFrames, _n_frames)
    THEN [pool |-> p, ret |-> 0, found |-> FALSE, head |-> 0]
    ELSE Scan([p EXCEPT !.nFreeFrames = p.nFreeFrames - _n_frames],
              _n_frames, 0, 0, 0)

get_frames(p, _n_frames) ==
    IF NoRoom(p.nFreeFrames, _n_frames)
    THEN [pool |-> p, ret |-> 0, found |-> FALSE, head |-> 0]
    ELSE Scan(p, _n_frames, 0, 0, 0)

GetFrames(k, n) ==
    /\ run = "ready"
    /\ ncalls < MaxCalls
    /\ k \in 1 .. Len(pools)
    /\ LET r == get_frames(pools[k], n)
       IN  /\ pools' = [pools EXCEPT ![k] = r.pool]
           /\ last' = [op |-> "get", pool |-> k, arg |-> r.head, n |-> n,
                       ret |-> r.ret, ok |-> r.found]
           /\ alloc' = IF r.found
                       THEN [pool |-> k, frame |-> r.ret, n |-> n,
                             pre |-> pools[k].nFreeFrames, live |-> TRUE]
                       ELSE NoAlloc
    /\ ncalls' = ncalls + 1
    /\ UNCHANGED <<run, rel, clean, thr>>

\* ------------------------------------------------------ mark_inaccessible
\* InRange with the upper bound of the assert taken inclusive
InRange_Inclusive(p, _frame_no) ==
    (_frame_no >= p.base_frame_no) /\ (_frame_no <= p.base_frame_no + p.nframes)

InRange(p, _frame_no) ==
    (_frame_no >= p.base_frame_no) /\ (_frame_no < p.base_frame_no + p.nframes)

\* the single form after its assert: bitmap[index] = 0x80; nFreeFrames--;
mark_one(p, _frame_no) ==
    [p EXCEPT !.bitmap[_frame_no - p.base_frame_no] = INACCESSIBLE,
              !.nFreeFrames = p.nFreeFrames - 1]

RECURSIVE mark_range(_, _, _)
\* for (i = _base_frame_no; i < _base_frame_no + _n_frames; i++)
\*     mark_inaccessible(i);
\* The result is the pool and whether an assert of the single form failed.
mark_range(p, i, end) ==
    IF i < end
    THEN IF InRange(p, i)
         THEN mark_range(mark_one(p, i), i + 1, end)
         ELSE [pool |-> p, failed |-> TRUE]
    ELSE [pool |-> p, failed |-> FALSE]

MarkInaccessible(k, _base_frame_no, _n_frames) ==
    /\ run = "ready"
    /\ ncalls < MaxCalls
    /\ k \in 1 .. Len(pools)
    /\ LET r == mark_range(pools[k], _base_frame_no,
                           _base_frame_no + _n_frames)
       IN  /\ pools' = [pools EXCEPT ![k] = r.pool]
           /\ run' = IF r.failed THEN "assert" ELSE "ready"
           /\ last' = [op |-> "mark", pool |-> k, arg |-> _base_frame_no,
                       n |-> _n_frames, ret |-> 0, ok |-> ~r.failed]
    /\ clean' = (clean /\ \A f \in _base_frame_no
                                    .. (_base_frame_no + _n_frames - 1) :
                    /\ InRange(pools[k], f)
                    /\ pools[k].bitmap[f - pools[k].base_frame_no] = FREE)
    /\ alloc' = NoAlloc
    /\ ncalls' = ncalls + 1
    /\ UNCHANGED <<rel, thr>>

\* --------------------------------------------------------- release_frames
\* if (_first_frame_no >= baseFrame && _first_frame_no <= baseFrame + numFrame)
Owns(p, _first_frame_no) ==
    /\ _first_frame_no >= p.base_frame_no
    /\ _first_frame_no <= p.base_frame_no + p.nframes

\* the pool the list walk from pool_head stops at, NoPool when temp gets NULL
FindPool(ps, _first_frame_no) ==
    IF \E k \in 1 .. Len(ps) : Owns(ps[k], _first_frame_no)
    THEN CHOOSE k \in 1 .. Len(ps) :
            /\ Owns(ps[k], _first_frame_no)
            /\ \A j \in 1 .. (k - 1) : ~Owns(ps[j], _first_frame_no)
    ELSE NoPool

\* tBitmap[position] = 0xFF; position++; temp->nFreeFrames++;
FreeCell(p, position) ==
    [p EXCEPT !.bitmap[position] = FREE, !.nFreeFrames = p.nFreeFrames + 1]

\* while (tBitmap[position] != 0xFF || tBitmap[position] != 0x77)
WalkOn(byte) == (byte # FREE) \/ (byte # HEAD)

\* The call up to the first test of the loop.  Calls are made once a pool
\* has been constructed.
ReleaseFrames(_first_frame_no) ==
    /\ run = "ready"
    /\ ncalls < MaxCalls
    /\ pools # << >>
    /\ LET k == FindPool(pools, _first_frame_no)
       IN  /\ last' = [op |-> "release", pool |-> k, arg |-> _first_frame_no,
                       n |-> 0, ret |-> 0,
                       ok |-> /\ k # NoPool
                              /\ _first_frame_no
                                   < pools[k].base_frame_no + pools[k].nframes
                              /\ pools[k].bitmap[_first_frame_no
                                   - pools[k].base_frame_no] = HEAD]
           /\ IF k = NoPool
              THEN UNCHANGED <<pools, run, rel>>
              ELSE LET position == _first_frame_no - pools[k].base_frame_no
                   IN  /\ pools' = [pools EXCEPT
                                      ![k] = FreeCell(pools[k], position)]
                       /\ rel' = [pool |-> k, position |-> position + 1]
                       /\ run' = "walk"
    /\ alloc' = IF alloc.live /\ alloc.frame = _first_frame_no
                THEN alloc ELSE NoAlloc
    /\ ncalls' = ncalls + 1
    /\ UNCHANGED <<clean, thr>>

\* One test of the loop condition and, when it holds, one pass of the body.
ReleaseStep ==
    /\ run = "walk"
    /\ rel.position < MemCells
    /\ LET p == pools[rel.pool]
       IN  IF WalkOn(p.bitmap[rel.position])
           THEN /\ pools' = [pools EXCEPT
                               ![rel.pool] = FreeCell(p, rel.position)]
                /\ rel' = [rel EXCEPT !.position = rel.position + 1]
                /\ UNCHANGED run
           ELSE /\ run' = "ready"
                /\ UNCHANGED <<pools, rel>>
    /\ UNCHANGED <<last, alloc, clean, ncalls, thr>>

\* The walk leaves the modelled memory window; it goes on through the
\* physical memory behind it and the call does not come back.
ReleaseOverrun ==
    /\ run = "walk"
    /\ rel.position = MemCells
    /\ run' = "overrun"
    /\ UNCHANGED <<pools, rel, last, alloc, clean, ncalls, thr>>

\* ----------------------------------------- get_frames, several callers
\* The code takes no lock.  A call of get_frames by one of several callers
\* is a sequence of steps, one per pass of its loops; the steps of
\* different callers may alternate.
Callers == 1 .. MaxCallers

IdleCaller == [pc |-> "idle", n |-> 0, i |-> 0, counter |-> 0,
               frame_head |-> 0, ret |-> 0, took |-> FALSE]

\* entry of get_frames: the capacity check and the locals
CallerEnter(t, n) ==
    /\ run = "ready"
    /\ Len(pools) = 1
    /\ thr[t].pc = "idle"
    /\ thr' = [thr EXCEPT ![t] =
                 IF NoRoom(pools[1].nFreeFrames, n)
                 THEN [IdleCaller EXCEPT !.pc = "done", !.n = n]
                 ELSE [IdleCaller EXCEPT !.pc = "scan", !.n = n]]
    /\ UNCHANGED <<pools, run, rel, last, alloc, clean, ncalls>>

\* one pass of the scan loop; on a hit also the marking of the head
CallerScan(t) ==
    /\ run = "ready"
    /\ thr[t].pc = "scan"
    /\ LET c == thr[t]
           p == pools[1]
       IN  IF c.i < ScanEnd(p.nframes)
           THEN LET fh == IF p.bitmap[c.i] = FREE /\ c.counter = 0
                          THEN c.i ELSE c.frame_head
                    cn == IF p.bitmap[c.i] = FREE THEN c.counter + 1 ELSE 0
                IN  IF cn = c.n
                    THEN /\ pools' = [pools EXCEPT ![1] =
                                        [p EXCEPT !.bitmap[fh] = HEAD,
                                                  !.nFreeFrames =
                                                      p.nFreeFrames - 1]]
                         /\ thr' = [thr EXCEPT ![t] =
                                      [c EXCEPT !.pc = "mark",
                                                !.counter = cn,
                                                !.frame_head = fh,
                                                !.ret = p.base_frame_no + fh,
                                                !.took = TRUE]]
                    ELSE /\ thr' = [thr EXCEPT ![t] =
                                      [c EXCEPT !.i = c.i + 1,
                                                !.counter = cn,
                                                !.frame_head = fh]]
                         /\ UNCHANGED pools
           ELSE /\ thr' = [thr EXCEPT ![t] = [c EXCEPT !.pc = "done"]]
                /\ UNCHANGED pools
    /\ UNCHANGED <<run, rel, last, alloc, clean, ncalls>>

\* one test of while (counter > 1) and, when it holds, one pass of its body;
\* otherwise the return
CallerMark(t) ==
    /\ run = "ready"
    /\ thr[t].pc = "mark"
    /\ LET c == thr[t]
           p == pools[1]
       IN  IF c.counter > 1
           THEN /\ pools' = [pools EXCEPT ![1] =
                               [p EXCEPT !.bitmap[c.frame_head + 1] = ALLOCATED,
                                         !.nFreeFrames = p.nFreeFrames - 1]]
                /\ thr' = [thr EXCEPT ![t] =
                             [c EXCEPT !.frame_head = c.frame_head + 1,
                                       !.counter = c.counter - 1]]
           ELSE /\ thr' = [thr EXCEPT ![t] = [c EXCEPT !.pc = "done"]]
                /\ UNCHANGED pools
    /\ UNCHANGED <<run, rel, last, alloc, clean, ncalls>>

Init ==
    /\ thr = [t \in Callers |-> IdleCaller]
    /\ pools = << >>
    /\ run = "ready"
    /\ rel = [pool |-> NoPool, position |-> 0]
    /\ last = NoCall
    /\ alloc = NoAlloc
    /\ clean = TRUE
    /\ ncalls = 0

Frames == 0 .. (MaxBase + MaxFrames)

Calls ==
    \/ \E k \in 1 .. MaxPools, n \in 0 .. MaxFrames : GetFrames(k, n)
    \/ \E k \in 1 .. MaxPools, b \in Frames, n \in 1 .. MaxMark :
          MarkInaccessible(k, b, n)
    \/ \E f \in Frames : ReleaseFrames(f)
    \/ ReleaseStep
    \/ ReleaseOverrun

Next ==
    \/ \E b \in 0 .. MaxBase, n \in 1 .. MaxFrames, info \in 0 .. MaxInfoNo,
          ninfo \in 0 .. MaxInfoFrames :
             Construct(MaxPools, b, n, info, ninfo)
    \/ Calls

Spec == Init /\ [][Next]_vars

\* The same operations on a single pool.
NextPool ==
    \/ \E b \in 0 .. MaxBase, n \in 1 .. MaxFrames, info \in 0 .. MaxInfoNo,
          ninfo \in 0 .. MaxInfoFrames :
             Construct(1, b, n, info, ninfo)
    \/ Calls

SpecPool == Init /\ [][NextPool]_vars

\* One pool and several callers of get_frames.
NextCallers ==
    \/ \E b \in 0 .. MaxBase, n \in 1 .. MaxFrames, info \in 0 .. MaxInfoNo,
          ninfo \in 0 .. MaxInfoFrames :
             Construct(1, b, n, info, ninfo)
    \/ \E t \in Callers, n \in 0 .. MaxFrames : CallerEnter(t, n)
    \/ \E t \in Callers : CallerScan(t)
    \/ \E t \in Callers : CallerMark(t)

SpecCallers == Init /\ [][NextCallers]_vars

\* ------------------------------------------------------------ properties
\* the number of frames of pool p whose state is FREE
FreeCount(p) == Cardinality({i \in 0 .. (p.nframes - 1) : p.bitmap[i] = FREE})

\* frames o .. o+n-1 of pool p are frames of the pool and all FREE
FreeRunAt(p, o, n) ==
    /\ o + n <= p.nframes
    /\ \A i \in o .. (o + n - 1) : p.bitmap[i] = FREE

\* this step is a call of op (and not a pass of the loop of a running call)
IsCall(op) == run = "ready" /\ last'.op = op

\* C1: between calls, as long as mark_inaccessible was only used on FREE
\* in-range frames, nFreeFrames of every pool equals the number of its
\* frames in state FREE.
C1_FreeCountExact ==
    (run = "ready" /\ clean) =>
        \A k \in 1 .. Len(pools) : pools[k].nFreeFrames = FreeCount(pools[k])

\* C2: a get_frames(n), n >= 1, that takes a run and returns f leaves f
\* HEAD_OF_SEQUENCE and f+1 .. f+n-1 ALLOCATED, all n frames were FREE
\* before the call, and nFreeFrames is n less than before.
C2_GetFramesMarksRun ==
    [][(IsCall("get") /\ last'.ok /\ last'.n >= 1) =>
         LET p == pools[last'.pool]
             q == pools'[last'.pool]
             o == last'.ret - p.base_frame_no
             n == last'.n
         IN  /\ o >= 0
             /\ FreeRunAt(p, o, n)
             /\ q.bitmap[o] = HEAD
             /\ \A i \in (o + 1) .. (o + n - 1) : q.bitmap[i] = ALLOCATED
             /\ q.nFreeFrames = p.nFreeFrames - n]_vars

\* a get_frames(n) with n >= 2 has just taken a run
C2_Witness ==
    /\ last.op = "get" /\ last.ok /\ last.n >= 2
    /\ pools[last.pool].bitmap[last.arg] = HEAD
    /\ pools[last.pool].bitmap[last.arg + 1] = ALLOCATED

\* C3: get_frames(n) with 1 <= n <= nFreeFrames takes a run whenever the
\* pool holds n consecutive FREE frames, the pool's last frame included.
C3_FindsEveryRun ==
    [][(/\ IsCall("get")
        /\ last'.n >= 1
        /\ ~ULess(pools[last'.pool].nFreeFrames, last'.n)
        /\ \E o \in 0 .. (pools[last'.pool].nframes - 1) :
              FreeRunAt(pools[last'.pool], o, last'.n))
       => last'.ok]_vars

\* C4: release_frames(f) directly after a get_frames(n), n >= 1, that
\* returned f: once the release has gone through the run (or has ended),
\* nFreeFrames is what it was before the allocation and the frames of the
\* run are FREE.
C4_RoundTrip ==
    (/\ alloc.live /\ alloc.n >= 1
     /\ last.op = "release"
     /\ last.arg = alloc.frame
     /\ \/ run # "walk"
        \/ rel.pool # alloc.pool
        \/ rel.position >= alloc.frame
                             - pools[alloc.pool].base_frame_no + alloc.n)
    => LET p == pools[alloc.pool]
           o == alloc.frame - p.base_frame_no
       IN  /\ p.nFreeFrames = alloc.pre
           /\ \A i \in o .. (o + alloc.n - 1) : p.bitmap[i] = FREE

\* C5: the walk of a release_frames on the head of a live run (the frame
\* a get_frames(n), n >= 1, has just returned) ends inside the owning pool:
\* it never gets past the pool's last frame.
C5_WalkEndsInPool ==
    (/\ alloc.live /\ alloc.n >= 1
     /\ last.op = "release" /\ last.arg = alloc.frame /\ last.ok
     /\ run \in {"walk", "overrun"}) =>
        /\ run # "overrun"
        /\ rel.position <= pools[rel.pool].nframes

\* C6: release_frames(f) on a frame of a pool that is not HEAD_OF_SEQUENCE
\* fails fatally and changes no bitmap entry and no nFreeFrames.
C6_ReleaseNonHeadFatal ==
    [][(/\ IsCall("release")
        /\ \E k \in 1 .. Len(pools) :
              /\ InRange(pools[k], last'.arg)
              /\ pools[k].bitmap[last'.arg - pools[k].base_frame_no] # HEAD)
       => (run' = "assert" /\ pools' = pools)]_vars

\* C7: release_frames(f) fails fatally when no pool has f in its range.
C7_ReleaseNoOwnerFatal ==
    [][(/\ IsCall("release")
        /\ \A k \in 1 .. Len(pools) : ~InRange(pools[k], last'.arg))
       => run' = "assert"]_vars

\* C8: release_frames(f) with f in the range of pool a is dispatched to a
\* and leaves every other pool as it was.
C8_ReleaseIsolation ==
    [][IsCall("release") =>
         \A a \in 1 .. Len(pools) :
            InRange(pools[a], last'.arg) =>
               /\ last'.pool = a
               /\ \A k \in 1 .. Len(pools) :
                     k # a => pools'[k] = pools[k]]_vars

\* C9: get_frames(n) with n greater than nFreeFrames returns 0.
C9_TooManyReturnsZero ==
    [][(IsCall("get") /\ ULess(pools[last'.pool].nFreeFrames, last'.n))
       => last'.ret = 0]_vars

\* get_frames(n) has just returned 0 with n > nFreeFrames although n
\* consecutive FREE frames lie before the pool's last frame
C9_Witness ==
    /\ last.op = "get" /\ last.ret = 0 /\ ~last.ok /\ last.n >= 1
    /\ ULess(pools[last.pool].nFreeFrames, last.n)
    /\ \E o \in 0 .. (pools[last.pool].nframes - 1) :
          FreeRunAt(pools[last.pool], o, last.n)
          /\ o + last.n < pools[last.pool].nframes

\* C10: get_frames(0) returns 0 in every pool state.
C10_ZeroRequestReturnsZero ==
    [][(IsCall("get") /\ last'.n = 0) => last'.ret = 0]_vars

\* pool p holds no n consecutive FREE frames
NoRun(p, n) == ~\E o \in 0 .. (p.nframes - 1) : FreeRunAt(p, o, n)

\* C11: get_frames(n) returns 0 when nFreeFrames >= n but the pool holds no
\* n consecutive FREE frames.
C11_ContiguityOverCount ==
    [][(/\ IsCall("get")
        /\ ~ULess(pools[last'.pool].nFreeFrames, last'.n)
        /\ NoRun(pools[last'.pool], last'.n))
       => (last'.ret = 0 /\ ~last'.ok)]_vars

\* get_frames(n) has just returned 0 in a pool with at least n FREE frames,
\* counted and by nFreeFrames, none of them n in a row
C11_Witness ==
    /\ last.op = "get" /\ last.ret = 0 /\ last.n >= 2
    /\ ~ULess(pools[last.pool].nFreeFrames, last.n)
    /\ FreeCount(pools[last.pool]) >= last.n
    /\ NoRun(pools[last.pool], last.n)

\* C12: directly after the construction of a pool, nFreeFrames plus the
\* number of frames the constructor left non-FREE equals nframes; with the
\* state store hosted outside (info_frame_no # 0) nFreeFrames = nframes.
C12_ConstructionCount ==
    (last.op = "construct") =>
        LET p == pools[last.pool]
        IN  /\ p.nFreeFrames + (p.nframes - FreeCount(p)) = p.nframes
            /\ (p.info_frame_no # 0 => p.nFreeFrames = p.nframes)

\* frame f is not one of the frames of pool p
Outside(p, f) == f < p.base_frame_no \/ f >= p.base_frame_no + p.nframes

\* C13: mark_inaccessible (single form: n = 1, range form: any n) on frames
\* base .. base+n-1 of which one lies outside the pool fails fatally, and no
\* memory cell other than the pool's own frames is stored to.
C13_MarkOutOfRangeFatal ==
    [][IsCall("mark") =>
         LET p == pools[last'.pool]
             q == pools'[last'.pool]
         IN  /\ (\E f \in last'.arg .. (last'.arg + last'.n - 1) :
                    Outside(p, f)) => run' = "assert"
             /\ \A i \in Cells : i >= p.nframes => q.bitmap[i] = p.bitmap[i]
             /\ \A k \in 1 .. Len(pools) :
                   k # last'.pool => pools'[k] = pools[k]]_vars

\* a range form call has stopped at its assert after marking the pool's
\* last frame
C13_Witness ==
    /\ last.op = "mark" /\ ~last.ok /\ run = "assert" /\ last.n >= 2
    /\ LET p == pools[last.pool]
       IN  /\ last.arg = p.base_frame_no + p.nframes - 1
           /\ p.bitmap[p.nframes - 1] = INACCESSIBLE

\* C14: no get_frames call that takes a run returns 0: the value 0 always
\* means failure.
C14_ZeroMeansFailure ==
    [][(IsCall("get") /\ last'.ok /\ last'.n >= 1) => last'.ret # 0]_vars

\* C15: release_frames(f) on the head of a live run of n frames (the frame
\* a get_frames(n), n >= 1, has just returned) frees the frames [f, f+n)
\* and nothing else: no pass of its walk changes the pool at a position
\* behind the run.
C15_ReleaseFreesRunOnly ==
    [][(/\ run = "walk"
        /\ alloc.live /\ alloc.n >= 1
        /\ last.op = "release" /\ last.arg = alloc.frame /\ last.ok
        /\ rel.pool = alloc.pool
        /\ pools' # pools)
       => rel.position < alloc.frame - pools[alloc.pool].base_frame_no
                           + alloc.n]_vars

\* C16: between calls every frame of every pool is FREE, ALLOCATED or
\* HEAD_OF_SEQUENCE, and no ALLOCATED frame sits at index 0 of its pool or
\* directly after a frame that is neither HEAD_OF_SEQUENCE nor ALLOCATED.
C16_RunStructure ==
    (run = "ready") =>
        \A k \in 1 .. Len(pools) :
           \A i \in 0 .. (pools[k].nframes - 1) :
              /\ pools[k].bitmap[i] \in {FREE, ALLOCATED, HEAD}
              /\ pools[k].bitmap[i] = ALLOCATED =>
                    /\ i > 0
                    /\ pools[k].bitmap[i - 1] \in {HEAD, ALLOCATED}

\* C17: a get_frames(n) that takes a run returns base_frame_no + o for the
\* smallest offset o with frames o .. o+n-1 all FREE before the call.
C17_FirstFit ==
    [][(IsCall("get") /\ last'.ok) =>
         LET p == pools[last'.pool]
             o == last'.ret - p.base_frame_no
         IN  /\ o >= 0
             /\ FreeRunAt(p, o, last'.n)
             /\ \A j \in 0 .. (o - 1) : ~FreeRunAt(p, j, last'.n)]_vars

\* a get_frames(n), n >= 1, has just taken a run that does not start at
\* the pool's first frame
C17_Witness ==
    /\ last.op = "get" /\ last.ok /\ last.n >= 1
    /\ last.ret > pools[last.pool].base_frame_no
    /\ pools[last.pool].bitmap[last.ret - pools[last.pool].base_frame_no]
          = HEAD

\* the global numbers of the frames that hold the state store of pool p:
\* n_info_frames frames from the pool's base (self-hosted, info_frame_no = 0)
\* or from info_frame_no
StoreFrames(p) ==
    {(IF p.info_frame_no = 0 THEN p.base_frame_no ELSE p.info_frame_no) + j :
        j \in 0 .. (p.n_info_frames - 1)}

\* C18: the frames that hold the state store of a pool are never part of a
\* run that a get_frames(n), n >= 1, on that pool hands out.
C18_StoreFramesKept ==
    [][(IsCall("get") /\ last'.ok /\ last'.n >= 1) =>
         \A f \in last'.ret .. (last'.ret + last'.n - 1) :
            f \notin StoreFrames(pools[last'.pool])]_vars

\* C20: a get_frames(n), n >= 1, that returns 0 because nFreeFrames is
\* below n or because the pool holds no n consecutive FREE frames changes
\* no bitmap entry and no nFreeFrames of any pool, and the kernel goes on.
C20_FailureChangesNothing ==
    [][(/\ IsCall("get")
        /\ last'.n >= 1
        /\ last'.ret = 0
        /\ \/ ULess(pools[last'.pool].nFreeFrames, last'.n)
           \/ NoRun(pools[last'.pool], last'.n))
       => (pools' = pools /\ run' = "ready")]_vars

\* get_frames(n) has just returned 0 after a scan that found no run,
\* nFreeFrames not being below n
C20_Witness ==
    /\ last.op = "get" /\ last.ret = 0 /\ ~last.ok /\ last.n >= 1
    /\ pools[last.pool].nFreeFrames >= last.n
    /\ NoRun(pools[last.pool], last.n)
    /\ run = "ready"

\* C19: calls of get_frames by several callers on one pool do not
\* interleave, so that no two of them return runs that share a frame.
C19_NoSharedFrame ==
    \A t1 \in Callers : \A t2 \in Callers :
       (/\ t1 # t2
        /\ thr[t1].pc = "done" /\ thr[t1].took /\ thr[t1].n >= 1
        /\ thr[t2].pc = "done" /\ thr[t2].took /\ thr[t2].n >= 1)
       => \/ thr[t1].ret + thr[t1].n <= thr[t2].ret
          \/ thr[t2].ret + thr[t2].n <= thr[t1].ret
====
